---- MODULE Spec2Model ----
(***************************************************************************)
(* Model of MacroNewsStartNode (macro-news-start-node.tsx): the run/stop   *)
(* button of the start node, and handlePlay's reachable-subgraph           *)
(* extraction and run-request assembly.                                    *)
(*                                                                         *)
(* A node is modelled by its id (type, data and position are opaque        *)
(* payload copied verbatim); an edge by its (source, target) pair.         *)
(* The recursive dfs closure is modelled by its call stack: one frame per  *)
(* active call, holding the call's nodeId and the part of outgoingEdges    *)
(* the for-loop has not iterated yet.                                      *)
(***************************************************************************)
EXTENDS Naturals, Sequences, FiniteSets, TLC

VARIABLES
    isConnecting, isConnected, isProcessing, canRun,   \* useFlowConnection values of the current render
    bottomPanelExpanded, bottomPanelTab,               \* layout context state
    pc,                                                \* position inside handlePlay ("idle" outside)
    allNodes, allEdges,                                \* graph snapshot
    visited, reachableNodes, stack,                    \* dfs state
    agentNodes, validEdges,                            \* extracted subgraph
    allAgentModels, agentModels,                       \* model lookup and collected assignments
    request,                                           \* argument of runFlow
    calls                                              \* collaborator calls made by the last click

vars == <<isConnecting, isConnected, isProcessing, canRun,
          bottomPanelExpanded, bottomPanelTab, pc, allNodes, allEdges,
          visited, reachableNodes, stack, agentNodes, validEdges,
          allAgentModels, agentModels, request, calls>>

flagVars == <<isConnecting, isConnected, isProcessing, canRun>>
panelVars == <<bottomPanelExpanded, bottomPanelTab>>
localVars == <<allNodes, allEdges, visited, reachableNodes, stack, agentNodes,
               validEdges, allAgentModels, agentModels, request>>

----------------------------------------------------------------------------
(* Bounds of the model *)

MaxNodes == 3
MaxEdges == 3

\* Node ids that occur in snapshots; any of them may be missing from the node list.
Ids == {"S", "A", "B"}

\* The id prop of the start node component.
id == "S"

Node == [id : Ids]
Edge == [source : Ids, target : Ids]

Injective(s) == \A i, j \in 1..Len(s) : s[i].id = s[j].id => i = j

\* getNodes(): node lists with unique ids.
NodeLists == {ns \in UNION {[1..n -> Node] : n \in 0..MaxNodes} : Injective(ns)}

\* getEdges(): any edge list, parallel edges and self-loops included.
EdgeLists == UNION {[1..n -> Edge] : n \in 0..MaxEdges}

ModelDescriptors == {[model_name |-> "gpt-4o", provider |-> "OpenAI"],
                     [model_name |-> "claude", provider |-> "Anthropic"]}

\* getAllAgentModels(flowId): a record keyed by node id; a key may be absent.
ModelLookups == UNION {[K -> ModelDescriptors] : K \in SUBSET Ids}

BottomPanelTabs == {"output", "terminal"}

----------------------------------------------------------------------------
(* Pure helpers *)

Range(s) == {s[i] : i \in 1..Len(s)}

\* Mutant: the filter compares the edge's target.
OutgoingEdges_ByTarget(edges, nodeId) == SelectSeq(edges, LAMBDA edge : edge.target = nodeId)

\* Mutant: only the first matching edge is followed (find instead of filter).
OutgoingEdges_FirstOnly(edges, nodeId) ==
    LET hits == SelectSeq(edges, LAMBDA edge : edge.source = nodeId)
    IN  IF hits = <<>> THEN <<>> ELSE <<Head(hits)>>

\* allEdges.filter(edge => edge.source === nodeId)
OutgoingEdges(edges, nodeId) == SelectSeq(edges, LAMBDA edge : edge.source = nodeId)

\* Mutant: the start id is added like any other id.
AddReachable_Always(reachable, nodeId) == reachable \cup {nodeId}

\* if (nodeId !== id) reachableNodes.add(nodeId)
AddReachable(reachable, nodeId) ==
    IF nodeId # id THEN reachable \cup {nodeId} ELSE reachable

\* Mutant: the call does not look at visited.
DfsCall_NoVisitedCheck(st, edges, nodeId) ==
    [visited        |-> st.visited \cup {nodeId},
     reachableNodes |-> IF nodeId # id THEN st.reachableNodes \cup {nodeId}
                                       ELSE st.reachableNodes,
     stack          |-> <<[nodeId |-> nodeId,
                           outgoingEdges |-> SelectSeq(edges, LAMBDA edge : edge.source = nodeId)]>>
                        \o st.stack]

\* One call dfs(nodeId) up to the start of its for-loop, on the dfs state
\* st = [visited, reachableNodes, stack]; the top of the stack is its head.
DfsCall(st, edges, nodeId) ==
    IF nodeId \in st.visited
    THEN st
    ELSE [visited        |-> st.visited \cup {nodeId},
          reachableNodes |-> AddReachable(st.reachableNodes, nodeId),
          stack          |-> <<[nodeId |-> nodeId,
                                outgoingEdges |-> OutgoingEdges(edges, nodeId)]>> \o st.stack]

\* One step of the running traversal: the innermost call either returns
\* (its loop is exhausted) or iterates once, calling dfs(edge.target).
DfsStep(st, edges) ==
    LET top == Head(st.stack) IN
    IF top.outgoingEdges = <<>>
    THEN [st EXCEPT !.stack = Tail(st.stack)]
    ELSE LET edge == Head(top.outgoingEdges)
             rest == [top EXCEPT !.outgoingEdges = Tail(top.outgoingEdges)]
         IN  DfsCall([st EXCEPT !.stack = <<rest>> \o Tail(st.stack)], edges, edge.target)

EmptyDfs == [visited |-> {}, reachableNodes |-> {}, stack |-> <<>>]

RECURSIVE DfsRun(_, _)
DfsRun(st, edges) == IF st.stack = <<>> THEN st ELSE DfsRun(DfsStep(st, edges), edges)

\* The whole traversal dfs(id) on an edge list.
Traverse(edges) == DfsRun(DfsCall(EmptyDfs, edges, id), edges)

\* allNodes.find(node => node.id === id), as a list of zero or one node
StartNode(nodes) ==
    LET hits == SelectSeq(nodes, LAMBDA node : node.id = id)
    IN  IF hits = <<>> THEN <<>> ELSE <<Head(hits)>>

\* Mutant: the start node is appended after the reachable nodes.
AgentNodes_StartLast(nodes, reachable) ==
    SelectSeq(nodes, LAMBDA node : node.id \in reachable) \o StartNode(nodes)

\* Mutant: without a start node nothing is included.
AgentNodes_RequiresStart(nodes, reachable) ==
    IF StartNode(nodes) = <<>> THEN <<>>
    ELSE StartNode(nodes) \o SelectSeq(nodes, LAMBDA node : node.id \in reachable)

\* [ ...(startNode ? [startNode] : []), ...allNodes.filter(node => reachableNodes.has(node.id)) ]
AgentNodes(nodes, reachable) ==
    StartNode(nodes) \o SelectSeq(nodes, LAMBDA node : node.id \in reachable)

\* new Set([id, ...reachableNodes])
ReachableNodeIds(reachable) == {id} \cup reachable

\* Mutant: only the edge's target is tested.
ValidEdges_TargetOnly(edges, reachable) ==
    SelectSeq(edges, LAMBDA edge : edge.target \in {id} \cup reachable)

\* allEdges.filter(edge => reachableNodeIds.has(edge.source) && reachableNodeIds.has(edge.target))
ValidEdges(edges, reachable) ==
    SelectSeq(edges, LAMBDA edge : /\ edge.source \in ReachableNodeIds(reachable)
                                   /\ edge.target \in ReachableNodeIds(reachable))

\* Mutant: every entry carries the model of the first node that has one.
AgentModels_FirstModel(nodes, lookup) ==
    LET withModel == SelectSeq(nodes, LAMBDA node : node.id \in DOMAIN lookup)
    IN  [i \in 1..Len(withModel) |->
            [agent_id       |-> withModel[i].id,
             model_name     |-> lookup[withModel[1].id].model_name,
             model_provider |-> lookup[withModel[1].id].provider]]

\* The for-loop that collects agent models, from the first node on.
RECURSIVE AgentModels(_, _)
AgentModels(nodes, lookup) ==
    IF nodes = <<>> THEN <<>>
    ELSE LET node == Head(nodes) IN
         (IF node.id \in DOMAIN lookup
          THEN <<[agent_id       |-> node.id,
                  model_name     |-> lookup[node.id].model_name,
                  model_provider |-> lookup[node.id].provider]>>
          ELSE <<>>) \o AgentModels(Tail(nodes), lookup)

\* agentNodes.map(node => ({id, type, data, position}))
GraphNodes(nodes) == [i \in 1..Len(nodes) |-> [id |-> nodes[i].id]]

RunRequest(nodes, edges, models) ==
    [tickers      |-> <<>>,
     graph_nodes  |-> GraphNodes(nodes),
     graph_edges  |-> edges,
     agent_models |-> models]

NoRequest == [tickers |-> <<>>, graph_nodes |-> <<>>, graph_edges |-> <<>>, agent_models |-> <<>>]

\* const showAsProcessing = isConnecting || isConnected || isProcessing
showAsProcessing == isConnecting \/ isConnected \/ isProcessing

\* disabled={!canRun && !showAsProcessing}
Disabled == ~canRun /\ ~showAsProcessing

\* Mutant: the handler is chosen by isProcessing alone.
OnClick_ProcessingOnly == IF isProcessing THEN "handleStop" ELSE "handlePlay"

\* onClick={showAsProcessing ? handleStop : handlePlay}
OnClick == IF showAsProcessing THEN "handleStop" ELSE "handlePlay"

----------------------------------------------------------------------------
(* State machine *)

Init ==
    /\ isConnecting = FALSE /\ isConnected = FALSE /\ isProcessing = FALSE
    /\ canRun \in BOOLEAN
    /\ bottomPanelExpanded = FALSE
    /\ bottomPanelTab = "terminal"
    /\ pc = "idle"
    /\ allNodes = <<>> /\ allEdges = <<>>
    /\ visited = {} /\ reachableNodes = {} /\ stack = <<>>
    /\ agentNodes = <<>> /\ validEdges = <<>>
    /\ allAgentModels = <<>> /\ agentModels = <<>>
    /\ request = NoRequest
    /\ calls = <<>>

\* A re-render with changed useFlowConnection values.
FlagsChange ==
    /\ pc = "idle"
    /\ \E c1, c2, c3, c4 \in BOOLEAN :
          /\ <<c1, c2, c3, c4>> # <<isConnecting, isConnected, isProcessing, canRun>>
          /\ isConnecting' = c1 /\ isConnected' = c2
          /\ isProcessing' = c3 /\ canRun' = c4
    /\ UNCHANGED <<panelVars, pc, localVars, calls>>

\* The user collapses the bottom panel or switches its tab.
PanelChange ==
    /\ pc = "idle"
    /\ \E e \in BOOLEAN, t \in BottomPanelTabs :
          /\ <<e, t>> # <<bottomPanelExpanded, bottomPanelTab>>
          /\ bottomPanelExpanded' = e /\ bottomPanelTab' = t
    /\ UNCHANGED <<flagVars, pc, localVars, calls>>

\* A click while the button shows "Stop": handleStop.
ClickStop ==
    /\ pc = "idle" /\ ~Disabled
    /\ OnClick = "handleStop"
    /\ calls' = <<"stopFlow">>
    /\ pc' = "stopped"
    /\ UNCHANGED <<flagVars, panelVars, localVars>>

\* A click while the button shows "Run": handlePlay up to the panel calls.
ClickPlay ==
    /\ pc = "idle" /\ ~Disabled
    /\ OnClick = "handlePlay"
    /\ bottomPanelExpanded' = TRUE
    /\ bottomPanelTab' = "output"
    /\ calls' = <<"expandBottomPanel", "setBottomPanelTab">>
    /\ pc' = "snapshot"
    /\ UNCHANGED <<flagVars, localVars>>

\* Graph snapshot, fresh dfs sets, and the initial call dfs(id).
Snapshot ==
    /\ pc = "snapshot"
    /\ \E ns \in NodeLists, es \in EdgeLists :
          LET st == DfsCall(EmptyDfs, es, id) IN
          /\ allNodes' = ns /\ allEdges' = es
          /\ visited' = st.visited
          /\ reachableNodes' = st.reachableNodes
          /\ stack' = st.stack
    /\ calls' = calls \o <<"getNodes", "getEdges">>
    /\ pc' = "dfs"
    /\ UNCHANGED <<flagVars, panelVars, agentNodes, validEdges, allAgentModels,
                   agentModels, request>>

DfsState == [visited |-> visited, reachableNodes |-> reachableNodes, stack |-> stack]

DfsAdvance ==
    LET st == DfsStep(DfsState, allEdges) IN
    /\ visited' = st.visited
    /\ reachableNodes' = st.reachableNodes
    /\ stack' = st.stack
    /\ UNCHANGED <<flagVars, panelVars, pc, allNodes, allEdges, agentNodes, validEdges,
                   allAgentModels, agentModels, request, calls>>

\* The loop of the innermost call reaches an edge whose target is new.
DfsVisit ==
    /\ pc = "dfs" /\ stack # <<>>
    /\ Head(stack).outgoingEdges # <<>>
    /\ Head(Head(stack).outgoingEdges).target \notin visited
    /\ DfsAdvance

\* The loop of the innermost call reaches an edge whose target was visited.
DfsSkip ==
    /\ pc = "dfs" /\ stack # <<>>
    /\ Head(stack).outgoingEdges # <<>>
    /\ Head(Head(stack).outgoingEdges).target \in visited
    /\ DfsAdvance

\* The loop of the innermost call is exhausted: the call returns.
DfsReturn ==
    /\ pc = "dfs" /\ stack # <<>>
    /\ Head(stack).outgoingEdges = <<>>
    /\ DfsAdvance

\* dfs(id) has returned: start node + reachable nodes, and the valid edges.
BuildSubgraph ==
    /\ pc = "dfs" /\ stack = <<>>
    /\ agentNodes' = AgentNodes(allNodes, reachableNodes)
    /\ validEdges' = ValidEdges(allEdges, reachableNodes)
    /\ pc' = "models"
    /\ UNCHANGED <<flagVars, panelVars, allNodes, allEdges, visited, reachableNodes,
                   stack, allAgentModels, agentModels, request, calls>>

\* Collect the agent models and trigger the run.
RunFlow ==
    /\ pc = "models"
    /\ \E lookup \in ModelLookups :
          /\ allAgentModels' = lookup
          /\ agentModels' = AgentModels(agentNodes, lookup)
          /\ request' = RunRequest(agentNodes, validEdges, AgentModels(agentNodes, lookup))
    /\ calls' = calls \o <<"getAllAgentModels", "runFlow">>
    /\ pc' = "done"
    /\ UNCHANGED <<flagVars, panelVars, allNodes, allEdges, visited, reachableNodes,
                   stack, agentNodes, validEdges>>

\* The click handler returns; its locals are gone.
Return ==
    /\ pc \in {"stopped", "done"}
    /\ pc' = "idle"
    /\ allNodes' = <<>> /\ allEdges' = <<>>
    /\ visited' = {} /\ reachableNodes' = {} /\ stack' = <<>>
    /\ agentNodes' = <<>> /\ validEdges' = <<>>
    /\ allAgentModels' = <<>> /\ agentModels' = <<>>
    /\ request' = NoRequest
    /\ calls' = <<>>
    /\ UNCHANGED <<flagVars, panelVars>>

Next ==
    \/ FlagsChange
    \/ PanelChange
    \/ ClickStop
    \/ ClickPlay
    \/ Snapshot
    \/ DfsVisit
    \/ DfsSkip
    \/ DfsReturn
    \/ BuildSubgraph
    \/ RunFlow
    \/ Return

Spec == Init /\ [][Next]_vars

----------------------------------------------------------------------------
(* Vocabulary of the properties *)

\* Ids of the nodes and the edges handed to runFlow.
OutNodeIds == {request.graph_nodes[i].id : i \in 1..Len(request.graph_nodes)}
OutEdges == request.graph_edges

\* runFlow has been called and handlePlay has not returned yet.
Dispatched == pc = "done"

\* Targets of the edges that leave a set of ids.
Successors(edges, from) == {e.target : e \in {x \in Range(edges) : x.source \in from}}

RECURSIVE Closure(_, _)
Closure(edges, R) ==
    LET R2 == R \cup Successors(edges, R)
    IN  IF R2 = R THEN R ELSE Closure(edges, R2)

\* Ids at the end of a directed path of one or more edges from s.
PathTargets(edges, s) == Closure(edges, Successors(edges, {s}))

\* The k-th smallest element of a set of indices.
Rank(K, i) == Cardinality({k \in K : k <= i})

\* How often each element occurs in a sequence.
Occurrences(s) == [e \in Range(s) |-> Cardinality({i \in 1..Len(s) : s[i] = e})]

StartPresent == \E i \in 1..Len(allNodes) : allNodes[i].id = id

PlayCalls == <<"expandBottomPanel", "setBottomPanelTab", "getNodes", "getEdges",
               "getAllAgentModels", "runFlow">>

IsPrefix(s, t) == Len(s) <= Len(t) /\ \A i \in 1..Len(s) : s[i] = t[i]

----------------------------------------------------------------------------
(* Properties *)

\* C1: every edge handed to runFlow (graph_edges) has both its source and its
\* target among the ids of the nodes handed to runFlow (graph_nodes).
C1_EdgesWithinOutputNodes ==
    Dispatched =>
        \A i \in 1..Len(OutEdges) :
            OutEdges[i].source \in OutNodeIds /\ OutEdges[i].target \in OutNodeIds

\* C2: a node of the snapshot is handed to runFlow exactly when its id is the
\* start id or a directed path of one or more edges leads from the start id
\* to its id (node ids are unique in the snapshot).
C2_IncludedIffReachable ==
    Dispatched =>
        \A i \in 1..Len(allNodes) :
            (allNodes[i].id \in OutNodeIds)
                <=> (allNodes[i].id = id \/ allNodes[i].id \in PathTargets(allEdges, id))

\* The start node is included, and so is a node that only a path of two or
\* more edges reaches.
C2_Witness ==
    /\ Dispatched
    /\ StartPresent /\ id \in OutNodeIds
    /\ \E i \in 1..Len(allNodes) :
          /\ allNodes[i].id \in OutNodeIds
          /\ allNodes[i].id \notin {id} \cup Successors(allEdges, {id})

\* C3: the node list handed to runFlow is the start node (if the snapshot has
\* it) followed by the snapshot's nodes whose id is in reachableNodes, in the
\* order they have in the snapshot.
C3_NodeOrder ==
    Dispatched =>
        LET out    == request.graph_nodes
            Kept   == {i \in 1..Len(allNodes) : allNodes[i].id \in reachableNodes}
            offset == IF StartPresent THEN 1 ELSE 0
        IN  /\ Len(out) = offset + Cardinality(Kept)
            /\ StartPresent => out[1].id = id
            /\ \A i \in Kept : out[offset + Rank(Kept, i)].id = allNodes[i].id

\* The start node is not first in the snapshot, and the traversal discovers
\* the two other nodes in the order opposite to the snapshot's.
C3_Witness ==
    /\ Dispatched
    /\ Len(allNodes) = 3 /\ Len(request.graph_nodes) = 3
    /\ allNodes[1].id # id
    /\ allEdges = <<[source |-> id, target |-> allNodes[3].id],
                    [source |-> allNodes[3].id, target |-> allNodes[1].id]>>

\* C4: the edge list handed to runFlow is the subsequence of the snapshot's
\* edges, in snapshot order, whose source and target are both in
\* {id} \cup reachableNodes; parallel edges are each kept.
C4_EdgeSubsequence ==
    Dispatched =>
        LET In(x) == x \in {id} \cup reachableNodes
            Kept  == {i \in 1..Len(allEdges) :
                         In(allEdges[i].source) /\ In(allEdges[i].target)}
        IN  /\ Len(OutEdges) = Cardinality(Kept)
            /\ \A i \in Kept : OutEdges[Rank(Kept, i)] = allEdges[i]

\* Two parallel edges are kept around an edge that is dropped.
C4_Witness ==
    /\ Dispatched
    /\ Len(allEdges) = 3 /\ Len(OutEdges) = 2
    /\ allEdges[1] = allEdges[3] /\ allEdges[1] # allEdges[2]
    /\ OutEdges = <<allEdges[1], allEdges[3]>>

\* The traversal's remaining work: unvisited ids weigh more than any number of
\* pending loop iterations and open calls.
RECURSIVE Pending(_)
Pending(st) == IF st = <<>> THEN 0 ELSE Len(Head(st).outgoingEdges) + Pending(Tail(st))
Measure ==
    (Len(allEdges) + 2) * Cardinality((Ids \cup {id}) \ visited) + Pending(stack) + Len(stack)

\* C5: the traversal terminates: while it runs a step of it can be taken,
\* every step lowers the remaining work (a natural number), and a call is
\* opened only for an id that was not in visited.
C5_TraversalTerminates ==
    /\ [](pc = "dfs" => ENABLED (DfsVisit \/ DfsSkip \/ DfsReturn \/ BuildSubgraph))
    /\ [][pc = "dfs" /\ pc' = "dfs" =>
            /\ Measure' < Measure
            /\ Len(stack') > Len(stack) =>
                  /\ Head(stack').nodeId \notin visited
                  /\ visited' = visited \cup {Head(stack').nodeId}]_vars

\* The traversal has come back to the start node through a cycle, met a
\* self-loop on another node, and ended.
C5_Witness ==
    /\ pc = "models"
    /\ \E i, j, k \in 1..Len(allEdges) :
          /\ allEdges[i].source = id /\ allEdges[i].target # id
          /\ allEdges[j].source = allEdges[i].target /\ allEdges[j].target = id
          /\ allEdges[k].source = allEdges[k].target /\ allEdges[k].source = allEdges[i].target

\* C6: when the snapshot has no node with the start id, no node with the
\* start id is handed to runFlow, the traversal still follows the edges that
\* leave the start id, and every snapshot node a path reaches is included;
\* with no edge leaving the start id the node list and the edge list are empty.
C6_MissingStartNode ==
    (Dispatched /\ ~StartPresent) =>
        /\ id \notin OutNodeIds
        /\ Successors(allEdges, {id}) \subseteq visited
        /\ \A i \in 1..Len(allNodes) :
              allNodes[i].id \in PathTargets(allEdges, id) => allNodes[i].id \in OutNodeIds
        /\ Successors(allEdges, {id}) = {} =>
              request.graph_nodes = <<>> /\ request.graph_edges = <<>>

\* The start node is missing and a node is still included through a path.
C6_Witness ==
    /\ Dispatched /\ ~StartPresent
    /\ Cardinality(OutNodeIds) = 2

\* C7: agent_models holds, in the order of the node list handed to runFlow,
\* one entry per node whose id is a key of the lookup, with the lookup's name
\* and provider; nodes without a key contribute nothing, and every agent_id
\* is the id of a node handed to runFlow.
C7_AgentModels ==
    Dispatched =>
        LET out  == request.graph_nodes
            am   == request.agent_models
            Kept == {i \in 1..Len(out) : out[i].id \in DOMAIN allAgentModels}
        IN  /\ Len(am) = Cardinality(Kept)
            /\ \A i \in Kept :
                  am[Rank(Kept, i)] = [agent_id       |-> out[i].id,
                                       model_name     |-> allAgentModels[out[i].id].model_name,
                                       model_provider |-> allAgentModels[out[i].id].provider]
            /\ \A j \in 1..Len(am) : am[j].agent_id \in OutNodeIds

\* A node without a model sits between two nodes with different models, and
\* the lookup is consulted for three nodes.
C7_Witness ==
    /\ Dispatched
    /\ Len(request.graph_nodes) = 3 /\ Len(request.agent_models) = 2
    /\ request.graph_nodes[2].id \notin DOMAIN allAgentModels
    /\ request.agent_models[1].model_name # request.agent_models[2].model_name

\* C8: the traversal of any permutation of the snapshot's edges yields the
\* same reachable set, hence the same node list, and the same edges with the
\* same multiplicities.
C8_EdgeOrderIndependent ==
    pc = "models" =>
        \A p \in Permutations(1..Len(allEdges)) :
            LET es == [i \in 1..Len(allEdges) |-> allEdges[p[i]]]
                r  == Traverse(es).reachableNodes
            IN  /\ r = reachableNodes
                /\ AgentNodes(allNodes, r) = agentNodes
                /\ Occurrences(ValidEdges(es, r)) = Occurrences(validEdges)

\* Three different edges, two of them leaving the start node.
C8_Witness ==
    /\ pc = "models"
    /\ Len(allEdges) = 3 /\ Cardinality(Range(allEdges)) = 3
    /\ Cardinality({i \in 1..3 : allEdges[i].source = id}) = 2
    /\ Cardinality(reachableNodes) = 2
    /\ Len(validEdges) = 3

\* C9: reachableNodes never holds the start id, and no id occurs twice in the
\* node list handed to runFlow.
C9_NoDuplicateNodes ==
    /\ id \notin reachableNodes
    /\ Dispatched =>
          \A i, j \in 1..Len(request.graph_nodes) :
              request.graph_nodes[i].id = request.graph_nodes[j].id => i = j

\* The start node has a self-loop, a cycle leads back to it, and it is listed.
C9_Witness ==
    /\ Dispatched /\ StartPresent
    /\ [source |-> id, target |-> id] \in Range(allEdges)
    /\ \E e \in Range(allEdges) : e.source # id /\ e.target = id /\ e.source \in OutNodeIds

\* C10: a click runs exactly one of stopFlow and runFlow: stopFlow when one of
\* isConnecting, isConnected, isProcessing holds, runFlow otherwise and only
\* with canRun; handlePlay calls expandBottomPanel, setBottomPanelTab('output'),
\* takes the snapshot and calls runFlow once, in this order.
C10_ClickDispatch ==
    /\ pc = "idle" => calls = <<>>
    /\ pc = "stopped" => calls = <<"stopFlow">> /\ showAsProcessing
    /\ pc \in {"snapshot", "dfs", "models", "done"} =>
          /\ ~showAsProcessing /\ canRun
          /\ bottomPanelExpanded /\ bottomPanelTab = "output"
          /\ IsPrefix(calls, PlayCalls)
          /\ calls[Len(calls)] = "runFlow" <=> pc = "done"

\* runFlow has been called for a snapshot with nodes and edges.
C10_Witness ==
    /\ Dispatched
    /\ calls = PlayCalls
    /\ Len(request.graph_nodes) = 2 /\ Len(request.graph_edges) = 1

====
